---- MODULE Spec2Model ----
(***************************************************************************)
(* Terrain streaming and level of detail (src/renderer/object/terrain.rs). *)
(*                                                                         *)
(* A Terrain owns a Vec of patches around a grid center.  update() moves   *)
(* the center one grid step at a time towards the viewpoint's patch,       *)
(* pushing a fresh edge column or row per step, then retains the patches   *)
(* inside the window around the target and reassigns every patch one of    *)
(* three shared index buffers according to the installed lod closure.      *)
(*                                                                         *)
(* The Vec of patches is kept as a bag: its entries with their             *)
(* multiplicity.  new, update and set_lod only push, retain, iterate and   *)
(* count, none of which reads the order of the entries.                    *)
(*                                                                         *)
(* World coordinates are integers; patch_size is an even positive integer, *)
(* so the centroid of a patch (offset + patch_size / 2) is an integer and  *)
(* distances are compared through their squares.                           *)
(***************************************************************************)
EXTENDS Integers, Sequences, FiniteSets, Bags

\* ------------------------------------------------------------------ bounds

\* patches_per_side is drawn from 0 .. MaxPatchesPerSide
MaxPatchesPerSide == 4
\* viewpoint x is drawn from CoordStep * (-MaxStep .. MaxStep)
MaxStep == 2
\* side lengths the index builder is probed with: 2 .. MaxSide
MaxSide == 17

CoordStep == 7
XCoords == { CoordStep * k : k \in -MaxStep .. MaxStep }
ZCoords == { -7, 0, 14 }
PatchSizes == { 10 }
\* the viewpoints: every (x, z), each at a height of its own
Positions ==
    { [ x |-> a, y |-> 3 + ((a + 2 * b) % 5), z |-> b ] : a \in XCoords, b \in ZCoords }

\* ---------------------------------------------------------------- integers

I32_MAX == 2147483647
I32_MIN == -I32_MAX - 1

abs(a) == IF a < 0 THEN -a ELSE a

\* Rust's integer division truncates towards zero
TruncDiv(a, b) == IF a >= 0 THEN a \div b ELSE -((-a) \div b)

\* f32::floor of a quotient with a positive divisor
FloorDiv(a, b) == a \div b

\* `as i32` on a float saturates at the ends of the i32 range
SatI32(a) == IF a > I32_MAX THEN I32_MAX ELSE IF a < I32_MIN THEN I32_MIN ELSE a

\* ------------------------------------------------------------ TerrainLod

TerrainLod == { "Standard", "Coarse", "VeryCoarse" }

\* The closures a Terrain can hold in its lod field.  "default" is the one
\* new() installs; the others are what a caller may pass to set_lod.
UserLods == { "thresholds", "nonmonotonic" }
Lods == { "default" } \cup UserLods

\* ApplyLod with a default closure that coarsens far patches
ApplyLod_default_by_distance(f, d2) ==
    CASE f = "default" -> IF d2 < 14 * 14 THEN "Standard" ELSE "Coarse"
      [] f = "thresholds" ->
            IF d2 < 8 * 8 THEN "Standard"
            ELSE IF d2 < 14 * 14 THEN "Coarse" ELSE "VeryCoarse"
      [] f = "nonmonotonic" ->
            IF d2 < 8 * 8 THEN "VeryCoarse"
            ELSE IF d2 < 14 * 14 THEN "Standard" ELSE "Coarse"

\* (*self.lod)(distance), on the square of the distance
ApplyLod(f, d2) ==
    CASE f = "default" -> "Standard"
      [] f = "thresholds" ->
            IF d2 < 8 * 8 THEN "Standard"
            ELSE IF d2 < 14 * 14 THEN "Coarse" ELSE "VeryCoarse"
      [] f = "nonmonotonic" ->
            IF d2 < 8 * 8 THEN "VeryCoarse"
            ELSE IF d2 < 14 * 14 THEN "Standard" ELSE "Coarse"

\* ------------------------------------------------------------- indices

\* The constant is declared with TerrainPatch, outside terrain.rs; indices
\* needs VERTICES_PER_SIDE - 1 to be a multiple of 8 for its three calls.
VERTICES_PER_SIDE == 33

\* CellIndices splitting the cell along the diagonal from its near corner
\* to its far corner
CellIndices_near_far_split(resolution, stride, r, c) ==
    << r * resolution + c * resolution * stride,
       r * resolution + resolution + c * resolution * stride,
       r * resolution + resolution + (c * resolution + resolution) * stride,
       r * resolution + c * resolution * stride,
       r * resolution + resolution + (c * resolution + resolution) * stride,
       r * resolution + (c * resolution + resolution) * stride >>

\* CellIndices whose last push repeats the fourth: the second triangle
\* never reaches the far corner
CellIndices_far_corner_missing(resolution, stride, r, c) ==
    << r * resolution + c * resolution * stride,
       r * resolution + resolution + c * resolution * stride,
       r * resolution + (c * resolution + resolution) * stride,
       r * resolution + (c * resolution + resolution) * stride,
       r * resolution + resolution + c * resolution * stride,
       r * resolution + (c * resolution + resolution) * stride >>

\* the six pushes of one cell (r, c)
CellIndices(resolution, stride, r, c) ==
    << r * resolution + c * resolution * stride,
       r * resolution + resolution + c * resolution * stride,
       r * resolution + (c * resolution + resolution) * stride,
       r * resolution + (c * resolution + resolution) * stride,
       r * resolution + resolution + c * resolution * stride,
       r * resolution + resolution + (c * resolution + resolution) * stride >>

\* for c in 0..max, from column c on
RECURSIVE IndicesRow(_, _, _, _, _)
IndicesRow(resolution, stride, max, r, c) ==
    IF c >= max THEN << >>
    ELSE CellIndices(resolution, stride, r, c)
            \o IndicesRow(resolution, stride, max, r, c + 1)

\* for r in 0..max, from row r on
RECURSIVE IndicesRows(_, _, _, _)
IndicesRows(resolution, stride, max, r) ==
    IF r >= max THEN << >>
    ELSE IndicesRow(resolution, stride, max, r, 0)
            \o IndicesRows(resolution, stride, max, r + 1)

\* indices with max = stride / resolution
indices_with_stride_no_minus_one(resolution, stride) ==
    LET max == stride \div resolution
    IN  IndicesRows(resolution, stride, max, 0)

\* Terrain::indices with the stride as a parameter
indices_with_stride(resolution, stride) ==
    LET max == (stride - 1) \div resolution
    IN  IndicesRows(resolution, stride, max, 0)

indices(resolution) == indices_with_stride(resolution, VERTICES_PER_SIDE)

\* the three sequences Terrain::new builds: Self::indices(1), Self::indices(4)
\* and Self::indices(8)
StandardIndices == indices(1)
CoarseIndices == indices(4)
VeryCoarseIndices == indices(8)

\* ElementBuffer::new_with_data: what the context keeps of a buffer
ElementBuffer_new_with_data(resolution, data) ==
    [ resolution |-> resolution, count |-> Len(data) ]

\* ------------------------------------------------------------ TerrainPatch

\* TerrainPatch::new((ix, iy), index_buffer)
TerrainPatch_new(ix, iy, buffer) ==
    [ index |-> << ix, iy >>, index_buffer |-> buffer ]

\* TerrainPatch::center: the centroid of the tile at ground height
PatchCenter(p, size) ==
    [ x |-> p.index[1] * size + size \div 2,
      y |-> 0,
      z |-> p.index[2] * size + size \div 2 ]

\* the square of a.distance(b)
Distance2(a, b) ==
    (a.x - b.x) * (a.x - b.x) + (a.y - b.y) * (a.y - b.y) + (a.z - b.z) * (a.z - b.z)

\* --------------------------------------------------------------- Terrain

half_patches_per_side(pps) == TruncDiv(pps - 1, 2)

\* pos2patch with `as i32` on the quotient itself: truncation, no floor
pos2patch_truncating(size, position) ==
    << SatI32(TruncDiv(position.x, size)), SatI32(TruncDiv(position.z, size)) >>

pos2patch(size, position) ==
    << SatI32(FloorDiv(position.x, size)), SatI32(FloorDiv(position.z, size)) >>

\* Vec::new, Vec::push and Vec::len on the bag of entries
VecNew == EmptyBag
VecPush(ps, p) == ps (+) SetToBag({ p })
VecLen(ps) == BagCardinality(ps)

\* `for iy in lo..hi` pushing the patch at (ix, iy)
RECURSIVE PushColumn(_, _, _, _, _)
PushColumn(ps, ix, lo, hi, buffer) ==
    IF lo >= hi THEN ps
    ELSE PushColumn(VecPush(ps, TerrainPatch_new(ix, lo, buffer)),
                    ix, lo + 1, hi, buffer)

\* `for ix in lo..hi` pushing the patch at (ix, iy)
RECURSIVE PushRow(_, _, _, _, _)
PushRow(ps, iy, lo, hi, buffer) ==
    IF lo >= hi THEN ps
    ELSE PushRow(VecPush(ps, TerrainPatch_new(lo, iy, buffer)),
                 iy, lo + 1, hi, buffer)

\* loop_x_inc with the range center.1 - H .. center.1 + H, its end excluded
RECURSIVE loop_x_inc_short(_, _, _)
loop_x_inc_short(t, x0, H) ==
    IF ~(x0 > t.center[1]) THEN t
    ELSE LET cx == t.center[1] + 1
             cy == t.center[2]
             ps == PushColumn(t.patches, cx + H, cy - H, cy + H, t.index_buffer)
         IN  loop_x_inc_short([ t EXCEPT !.center = << cx, cy >>, !.patches = ps,
                                   !.made = @ + VecLen(ps) - VecLen(t.patches) ], x0, H)

\* while x0 > self.center.0: one more column at center.0 + H
RECURSIVE loop_x_inc(_, _, _)
loop_x_inc(t, x0, H) ==
    IF ~(x0 > t.center[1]) THEN t
    ELSE LET cx == t.center[1] + 1
             cy == t.center[2]
             ps == PushColumn(t.patches, cx + H, cy - H, cy + H + 1, t.index_buffer)
         IN  loop_x_inc([ t EXCEPT !.center = << cx, cy >>, !.patches = ps,
                                   !.made = @ + VecLen(ps) - VecLen(t.patches) ], x0, H)

\* while x0 < self.center.0: one more column at center.0 - H
RECURSIVE loop_x_dec(_, _, _)
loop_x_dec(t, x0, H) ==
    IF ~(x0 < t.center[1]) THEN t
    ELSE LET cx == t.center[1] - 1
             cy == t.center[2]
             ps == PushColumn(t.patches, cx - H, cy - H, cy + H + 1, t.index_buffer)
         IN  loop_x_dec([ t EXCEPT !.center = << cx, cy >>, !.patches = ps,
                                   !.made = @ + VecLen(ps) - VecLen(t.patches) ], x0, H)

\* while y0 > self.center.1: one more row at center.1 + H
RECURSIVE loop_y_inc(_, _, _)
loop_y_inc(t, y0, H) ==
    IF ~(y0 > t.center[2]) THEN t
    ELSE LET cx == t.center[1]
             cy == t.center[2] + 1
             ps == PushRow(t.patches, cy + H, cx - H, cx + H + 1, t.index_buffer)
         IN  loop_y_inc([ t EXCEPT !.center = << cx, cy >>, !.patches = ps,
                                   !.made = @ + VecLen(ps) - VecLen(t.patches) ], y0, H)

\* loop_y_dec pushing its row at center.1 + H, as loop_y_inc does
RECURSIVE loop_y_dec_wrong_edge(_, _, _)
loop_y_dec_wrong_edge(t, y0, H) ==
    IF ~(y0 < t.center[2]) THEN t
    ELSE LET cx == t.center[1]
             cy == t.center[2] - 1
             ps == PushRow(t.patches, cy + H, cx - H, cx + H + 1, t.index_buffer)
         IN  loop_y_dec_wrong_edge([ t EXCEPT !.center = << cx, cy >>, !.patches = ps,
                                   !.made = @ + VecLen(ps) - VecLen(t.patches) ], y0, H)

\* while y0 < self.center.1: one more row at center.1 - H
RECURSIVE loop_y_dec(_, _, _)
loop_y_dec(t, y0, H) ==
    IF ~(y0 < t.center[2]) THEN t
    ELSE LET cx == t.center[1]
             cy == t.center[2] - 1
             ps == PushRow(t.patches, cy - H, cx - H, cx + H + 1, t.index_buffer)
         IN  loop_y_dec([ t EXCEPT !.center = << cx, cy >>, !.patches = ps,
                                   !.made = @ + VecLen(ps) - VecLen(t.patches) ], y0, H)

\* retain keeping one more ring than the window: what earlier calls left
\* around the window stays
retain_wide(t, x0, y0, H) ==
    LET keep == { p \in DOMAIN t.patches :
                    abs(x0 - p.index[1]) <= H + 1 /\ abs(y0 - p.index[2]) <= H + 1 }
        kept == [ p \in keep |-> t.patches[p] ]
    IN  [ t EXCEPT !.patches = kept,
                   !.dropped = @ + VecLen(t.patches) - VecLen(kept) ]

\* retain with < in place of <=
retain_strict(t, x0, y0, H) ==
    LET keep == { p \in DOMAIN t.patches :
                    abs(x0 - p.index[1]) < H /\ abs(y0 - p.index[2]) < H }
        kept == [ p \in keep |-> t.patches[p] ]
    IN  [ t EXCEPT !.patches = kept,
                   !.dropped = @ + VecLen(t.patches) - VecLen(kept) ]

\* self.patches.retain(..) against the target (x0, y0)
retain(t, x0, y0, H) ==
    LET keep == { p \in DOMAIN t.patches :
                    abs(x0 - p.index[1]) <= H /\ abs(y0 - p.index[2]) <= H }
        kept == [ p \in keep |-> t.patches[p] ]
    IN  [ t EXCEPT !.patches = kept,
                   !.dropped = @ + VecLen(t.patches) - VecLen(kept) ]

\* the match on (*self.lod)(distance)
LodBuffer(t, level) ==
    CASE level = "VeryCoarse" -> t.very_coarse_index_buffer
      [] level = "Coarse" -> t.coarse_index_buffer
      [] level = "Standard" -> t.index_buffer

\* reassign building every patch anew (TerrainPatch::new) with the buffer of
\* its level instead of replacing the buffer of the patch it has
reassign_regenerating(t, position) ==
    LET eye == [ x |-> position.x, y |-> 0, z |-> position.z ]
        Rebuilt(p) ==
            LET d2 == Distance2(PatchCenter(p, t.patch_size), eye)
            IN  TerrainPatch_new(p.index[1], p.index[2],
                                 LodBuffer(t, ApplyLod(t.lod, d2)))
    IN  [ t EXCEPT !.patches = BagOfAll(Rebuilt, t.patches),
                   !.made = @ + VecLen(t.patches) ]

\* reassign measuring the distance to the viewpoint itself, its height included
reassign_with_height(t, position) ==
    LET eye == [ x |-> position.x, y |-> position.y, z |-> position.z ]
        Assigned(p) ==
            LET d2 == Distance2(PatchCenter(p, t.patch_size), eye)
            IN  [ p EXCEPT !.index_buffer = LodBuffer(t, ApplyLod(t.lod, d2)) ]
    IN  [ t EXCEPT !.patches = BagOfAll(Assigned, t.patches) ]

\* self.patches.iter_mut().for_each(..): every patch gets the buffer of its level
reassign(t, position) ==
    LET eye == [ x |-> position.x, y |-> 0, z |-> position.z ]
        Assigned(p) ==
            LET d2 == Distance2(PatchCenter(p, t.patch_size), eye)
            IN  [ p EXCEPT !.index_buffer = LodBuffer(t, ApplyLod(t.lod, d2)) ]
    IN  [ t EXCEPT !.patches = BagOfAll(Assigned, t.patches) ]

\* update reassigning the index buffers before it re-centers: the patches it
\* pushes keep the Standard buffer until the next call
update_lod_first(self, position) ==
    LET target == pos2patch(self.patch_size, position)
        x0 == target[1]
        y0 == target[2]
        H == half_patches_per_side(self.patches_per_side)
        t0 == reassign([ self EXCEPT !.made = 0, !.dropped = 0 ], position)
        t1 == loop_x_inc(t0, x0, H)
        t2 == loop_x_dec(t1, x0, H)
        t3 == loop_y_inc(t2, y0, H)
        t4 == loop_y_dec(t3, y0, H)
    IN  retain(t4, x0, y0, H)

\* Terrain::update.  made and dropped count the TerrainPatch::new calls and
\* the patches retain() removes in this call.
update(self, position) ==
    LET target == pos2patch(self.patch_size, position)
        x0 == target[1]
        y0 == target[2]
        H == half_patches_per_side(self.patches_per_side)
        t0 == [ self EXCEPT !.made = 0, !.dropped = 0 ]
        t1 == loop_x_inc(t0, x0, H)
        t2 == loop_x_dec(t1, x0, H)
        t3 == loop_y_inc(t2, y0, H)
        t4 == loop_y_dec(t3, y0, H)
        t5 == retain(t4, x0, y0, H)
    IN  reassign(t5, position)

\* for ix in lo..hi { for iy in .. { patches.push(..) } } of Terrain::new
RECURSIVE NewColumns(_, _, _, _, _, _)
NewColumns(ps, ix, hi, cy, H, buffer) ==
    IF ix >= hi THEN ps
    ELSE NewColumns(PushColumn(ps, ix, cy - H, cy + H + 1, buffer),
                    ix + 1, hi, cy, H, buffer)

\* new building a buffer of its own for the patches instead of cloning
\* the handle it stores in index_buffer
new_private_buffer(size, pps, initial_position) ==
    LET b1 == ElementBuffer_new_with_data(1, StandardIndices)
        c == pos2patch(size, initial_position)
        H == half_patches_per_side(pps)
        ps == NewColumns(VecNew, c[1] - H, c[1] + H + 1, c[2], H, 4)
        b2 == ElementBuffer_new_with_data(4, CoarseIndices)
        b3 == ElementBuffer_new_with_data(8, VeryCoarseIndices)
    IN  [ center |-> c,
          patches |-> ps,
          index_buffer |-> 1,
          coarse_index_buffer |-> 2,
          very_coarse_index_buffer |-> 3,
          element_buffers |-> << b1, b2, b3, b1 >>,
          lod |-> "default",
          patch_size |-> size,
          patches_per_side |-> pps,
          made |-> VecLen(ps),
          dropped |-> 0 ]

\* Terrain::new.  element_buffers is what the context holds: the buffers
\* created so far, a buffer's handle being its place in the sequence.
new(size, pps, initial_position) ==
    LET b1 == ElementBuffer_new_with_data(1, StandardIndices)
        c == pos2patch(size, initial_position)
        H == half_patches_per_side(pps)
        ps == NewColumns(VecNew, c[1] - H, c[1] + H + 1, c[2], H, 1)
        b2 == ElementBuffer_new_with_data(4, CoarseIndices)
        b3 == ElementBuffer_new_with_data(8, VeryCoarseIndices)
    IN  [ center |-> c,
          patches |-> ps,
          index_buffer |-> 1,
          coarse_index_buffer |-> 2,
          very_coarse_index_buffer |-> 3,
          element_buffers |-> << b1, b2, b3 >>,
          lod |-> "default",
          patch_size |-> size,
          patches_per_side |-> pps,
          made |-> VecLen(ps),
          dropped |-> 0 ]

\* set_lod handing every patch the Standard buffer again with the new closure
set_lod_resetting(self, f) ==
    LET Reset(p) == [ p EXCEPT !.index_buffer = self.index_buffer ]
    IN  [ self EXCEPT !.lod = f, !.patches = BagOfAll(Reset, self.patches) ]

\* Terrain::set_lod
set_lod(self, f) == [ self EXCEPT !.lod = f ]

\* -------------------------------------------------------------------- GUI
\*
\* An Option is a sequence of length at most 1: << >> is None, << v >> is
\* Some(v).  An input event is a record with the fields of its variant; the
\* variants that carry no handled flag have no handled field.  Positions and
\* the device pixel ratio are integers, the positions multiples of the ratio.

\* the longest event slice handed to GUI::update
MaxEvents == 2

\* the number of frames GUI::update begins
MaxFrames == 3

NoModifiers == [ alt |-> FALSE, ctrl |-> FALSE, shift |-> FALSE, command |-> FALSE ]
CtrlModifiers == [ NoModifiers EXCEPT !.ctrl = TRUE ]

\* the build targets macOS
TargetMacOS == FALSE

\* impl From<&Key> for egui::Key
EguiKey(key) == << "egui::Key", key >>

\* impl From<&Modifiers> for egui::Modifiers
EguiModifiers(modifiers) ==
    [ alt |-> modifiers.alt,
      ctrl |-> modifiers.ctrl,
      shift |-> modifiers.shift,
      command |-> modifiers.command,
      mac_cmd |-> TargetMacOS /\ modifiers.command ]

\* impl From<&MouseButton> for egui::PointerButton
EguiPointerButton(button) ==
    CASE button = "Left" -> "Primary"
      [] button = "Right" -> "Secondary"
      [] button = "Middle" -> "Middle"

\* the egui::Pos2 of a position in the viewport
EguiPos(position, viewport, device_pixel_ratio) ==
    << position[1] \div device_pixel_ratio,
       (viewport.height - position[2]) \div device_pixel_ratio >>

\* try_convert_event: Some(GuiEvent) or None
try_convert_event(event, viewport, device_pixel_ratio) ==
    CASE event.kind = "KeyPress" ->
           << [ handled |-> << event.handled >>,
                event |-> [ kind |-> "Key", key |-> EguiKey(event.key),
                            pressed |-> TRUE,
                            modifiers |-> EguiModifiers(event.modifiers),
                            repeat |-> FALSE, physical_key |-> << >> ] ] >>
      [] event.kind = "KeyRelease" ->
           << [ handled |-> << event.handled >>,
                event |-> [ kind |-> "Key", key |-> EguiKey(event.key),
                            pressed |-> FALSE,
                            modifiers |-> EguiModifiers(event.modifiers),
                            repeat |-> FALSE, physical_key |-> << >> ] ] >>
      [] event.kind = "MousePress" ->
           << [ handled |-> << event.handled >>,
                event |-> [ kind |-> "PointerButton",
                            pos |-> EguiPos(event.position, viewport, device_pixel_ratio),
                            button |-> EguiPointerButton(event.button),
                            pressed |-> TRUE,
                            modifiers |-> EguiModifiers(event.modifiers) ] ] >>
      [] event.kind = "MouseRelease" ->
           << [ handled |-> << event.handled >>,
                event |-> [ kind |-> "PointerButton",
                            pos |-> EguiPos(event.position, viewport, device_pixel_ratio),
                            button |-> EguiPointerButton(event.button),
                            pressed |-> FALSE,
                            modifiers |-> EguiModifiers(event.modifiers) ] ] >>
      [] event.kind = "MouseMotion" ->
           << [ handled |-> << event.handled >>,
                event |-> [ kind |-> "PointerMoved",
                            pos |-> EguiPos(event.position, viewport, device_pixel_ratio) ] ] >>
      [] event.kind = "Text" ->
           << [ handled |-> << >>,
                event |-> [ kind |-> "Text", text |-> event.text ] ] >>
      [] event.kind = "MouseLeave" ->
           << [ handled |-> << >>, event |-> [ kind |-> "PointerGone" ] ] >>
      [] event.kind = "MouseWheel" ->
           << [ handled |-> << event.handled >>,
                event |-> IF event.modifiers.ctrl
                          THEN \* Zoom((delta.1 / 200).exp()): the exponent times 200
                               [ kind |-> "Zoom", exp_of_200th |-> event.delta[2] ]
                          ELSE [ kind |-> "Scroll",
                                 delta |-> IF event.modifiers.shift
                                           THEN << event.delta[2], event.delta[1] >>
                                           ELSE << event.delta[1], event.delta[2] >> ] ] >>
      [] OTHER -> << >>

\* get_unhandled_event passing every event on, handled or not
get_unhandled_event_any(event) == << event.event >>

\* get_unhandled_event: Some(egui event) unless the GuiEvent is handled
get_unhandled_event(event) ==
    IF event.handled # << >>
    THEN IF event.handled[1] THEN << >> ELSE << event.event >>
    ELSE << event.event >>

\* events.iter().filter_map(try_convert_event).map(get_unhandled_event)
\*       .flatten().collect()
RECURSIVE build_egui_events(_, _, _)
build_egui_events(events, viewport, device_pixel_ratio) ==
    IF events = << >> THEN << >>
    ELSE LET converted == try_convert_event(Head(events), viewport, device_pixel_ratio)
             unhandled == IF converted = << >> THEN << >>
                          ELSE get_unhandled_event(converted[1])
         IN  unhandled \o build_egui_events(Tail(events), viewport, device_pixel_ratio)

\* GUI::from_gl_context.  pixels_per_point and frame are the state of the
\* egui::Context: the scale it was last given and the frames it has begun.
from_gl_context ==
    [ output |-> << >>,
      viewport |-> [ x |-> 0, y |-> 0, width |-> 1, height |-> 1 ],
      modifiers |-> NoModifiers,
      pixels_per_point |-> 1,
      frame |-> 0 ]

\* one event of the loop of handle_events_from_egui
HandleEvent(event, wants_pointer_input, wants_keyboard_input) ==
    IF wants_pointer_input
       /\ event.kind \in { "MousePress", "MouseRelease", "MouseWheel", "MouseMotion" }
    THEN [ event EXCEPT !.handled = TRUE ]
    ELSE IF wants_keyboard_input /\ event.kind \in { "KeyRelease", "KeyPress" }
         THEN [ event EXCEPT !.handled = TRUE ]
         ELSE event

\* the modifiers after the loop: those of the last ModifiersChange
RECURSIVE LastModifiers(_, _)
LastModifiers(modifiers, events) ==
    IF events = << >> THEN modifiers
    ELSE LastModifiers(IF Head(events).kind = "ModifiersChange"
                       THEN Head(events).modifiers ELSE modifiers,
                       Tail(events))

\* GUI::handle_events_from_egui: the GUI and the caller's slice afterwards
handle_events_from_egui(self, events, wants_pointer_input, wants_keyboard_input) ==
    [ self |-> [ self EXCEPT !.modifiers = LastModifiers(self.modifiers, events) ],
      events |-> [ k \in DOMAIN events |->
                     HandleEvent(events[k], wants_pointer_input, wants_keyboard_input) ] ]

\* GUI::update.  wants_pointer_input and wants_keyboard_input are what the
\* egui::Context answers once the callback has built the frame; the output
\* of end_frame is the frame's number and the input it began with.
GUI_update(self, events, additional_egui_events, accumulated_time_in_ms, viewport, device_pixel_ratio, wants_pointer_input, wants_keyboard_input) ==
    LET egui_events == build_egui_events(events, viewport, device_pixel_ratio)
                          \o additional_egui_events
        egui_input ==
            [ screen_rect |->
                << [ min |-> << viewport.x \div device_pixel_ratio,
                                viewport.y \div device_pixel_ratio >>,
                     max |-> << viewport.x \div device_pixel_ratio
                                  + viewport.width \div device_pixel_ratio,
                                viewport.y \div device_pixel_ratio
                                  + viewport.height \div device_pixel_ratio >> ] >>,
              time_ms |-> << accumulated_time_in_ms >>,
              modifiers |-> EguiModifiers(self.modifiers),
              events |-> egui_events ]
        framed == [ self EXCEPT !.pixels_per_point = device_pixel_ratio,
                                !.viewport = viewport,
                                !.frame = @ + 1,
                                !.output = << [ frame |-> self.frame + 1,
                                                input |-> egui_input ] >> ]
        after == handle_events_from_egui(framed, events, wants_pointer_input,
                                         wants_keyboard_input)
    IN  [ self |-> after.self,
          events |-> after.events,
          changed |-> wants_pointer_input \/ wants_keyboard_input ]

\* render reading the stored output and leaving it in place
GUI_render_keeping(self) ==
    IF self.output = << >>
    THEN [ self |-> self, panic |-> << "need to call GUI::update before GUI::render" >>,
           painted |-> << >> ]
    ELSE [ self |-> self,
           panic |-> << >>,
           painted |-> << [ size |-> << self.viewport.width, self.viewport.height >>,
                            scale |-> self.pixels_per_point,
                            output |-> self.output[1] ] >> ]

\* GUI::render: the panic of expect() when no output is stored, or what the
\* painter is given
GUI_render(self) ==
    IF self.output = << >>
    THEN [ self |-> self, panic |-> << "need to call GUI::update before GUI::render" >>,
           painted |-> << >> ]
    ELSE [ self |-> [ self EXCEPT !.output = << >> ],
           panic |-> << >>,
           painted |-> << [ size |-> << self.viewport.width, self.viewport.height >>,
                            scale |-> self.pixels_per_point,
                            output |-> self.output[1] ] >> ]

\* ------------------------------------------------------------------ state

VARIABLES
    center,                   \* self.center
    patches,                  \* self.patches
    index_buffer,             \* self.index_buffer (a handle)
    coarse_index_buffer,      \* self.coarse_index_buffer
    very_coarse_index_buffer, \* self.very_coarse_index_buffer
    element_buffers,          \* the element buffers created in self.context
    lod,                      \* self.lod
    patch_size,               \* self.patch_size
    patches_per_side,         \* self.patches_per_side
    op,                       \* the last call: "new", "update" or "set_lod"
    position,                 \* the viewpoint of the last new / update
    prev_center,              \* self.center on entry to the last update
    repeated,                 \* the last update directly followed an update
                              \* with the same viewpoint
    constructed,              \* TerrainPatch::new calls of the last new / update
    evicted,                  \* patches removed by retain in the last update
    probe,                    \* a call of indices: its arguments and result
    call,                     \* the update in progress: its place in the code
                              \* and its locals
    gui,                      \* the GUI: its fields and its egui::Context
    events,                   \* the caller's event slice, which GUI::update marks
    trace                     \* the last call on the GUI: its arguments and
                              \* what it returned

vars == << center, patches, index_buffer, coarse_index_buffer,
           very_coarse_index_buffer, element_buffers, lod, patch_size,
           patches_per_side, op, position, prev_center, repeated, constructed,
           evicted, probe, call, gui, events, trace >>

Self ==
    [ center |-> center,
      patches |-> patches,
      index_buffer |-> index_buffer,
      coarse_index_buffer |-> coarse_index_buffer,
      very_coarse_index_buffer |-> very_coarse_index_buffer,
      element_buffers |-> element_buffers,
      lod |-> lod,
      patch_size |-> patch_size,
      patches_per_side |-> patches_per_side,
      made |-> 0,
      dropped |-> 0 ]

\* the fields of the Terrain after a call returned t
Store(t) ==
    /\ center' = t.center
    /\ patches' = t.patches
    /\ index_buffer' = t.index_buffer
    /\ coarse_index_buffer' = t.coarse_index_buffer
    /\ very_coarse_index_buffer' = t.very_coarse_index_buffer
    /\ element_buffers' = t.element_buffers
    /\ lod' = t.lod
    /\ patch_size' = t.patch_size
    /\ patches_per_side' = t.patches_per_side

\* the GUI as constructed, an empty slice, no call on the GUI yet.  In trace,
\* entry is the slice as update found it, updates counts the updates since
\* the GUI was constructed or since its last render, and followed is the
\* number of updates the last render came after.
NoTrace ==
    [ op |-> "new", panic |-> << >>, painted |-> << >>, entry |-> << >>,
      additional |-> << >>, changed |-> FALSE, updates |-> 0, followed |-> 0 ]
NoGuiCall ==
    /\ gui = from_gl_context
    /\ events = << >>
    /\ trace = NoTrace

NoProbe == [ resolution |-> 0, stride |-> 0, done |-> FALSE, out |-> << >> ]

\* no update is in progress.  pc is the statement the call is at: "idle"
\* between calls, the name of a while loop at its test, "push" inside a for
\* loop, "retain", "reassign", and "overflow" once an i32 computation of the
\* call has left the i32 range (a panic in a build with overflow checks, a
\* wrapped value in one without).
NoCall == [ pc |-> "idle", x0 |-> 0, y0 |-> 0, loop |-> "none", i |-> 0, hi |-> 0 ]

Constructed(size, pps, p) ==
    \E t \in { new(size, pps, p) } :
        /\ center = t.center
        /\ patches = t.patches
        /\ index_buffer = t.index_buffer
        /\ coarse_index_buffer = t.coarse_index_buffer
        /\ very_coarse_index_buffer = t.very_coarse_index_buffer
        /\ element_buffers = t.element_buffers
        /\ lod = t.lod
        /\ patch_size = t.patch_size
        /\ patches_per_side = t.patches_per_side
        /\ op = "new"
        /\ position = p
        /\ prev_center = t.center
        /\ repeated = FALSE
        /\ constructed = t.made
        /\ evicted = 0

Init ==
    /\ \E size \in PatchSizes, pps \in 0 .. MaxPatchesPerSide, p \in Positions :
          Constructed(size, pps, p)
    /\ probe = NoProbe
    /\ call = NoCall
    /\ NoGuiCall

Update(p) ==
    \E t \in { update(Self, p) } :
        /\ Store(t)
        /\ op' = "update"
        /\ position' = p
        /\ prev_center' = center
        /\ repeated' = (op = "update" /\ position = p)
        /\ constructed' = t.made
        /\ evicted' = t.dropped
        /\ UNCHANGED << probe, call, gui, events, trace >>

SetLod(f) ==
    /\ Store(set_lod(Self, f))
    /\ op' = "set_lod"
    /\ UNCHANGED << position, prev_center, repeated, constructed, evicted, probe,
                    call, gui, events, trace >>

Next ==
    \/ \E p \in Positions : Update(p)
    \/ \E f \in UserLods : SetLod(f)

Spec == Init /\ [][Next]_vars

\* ------------------------------------------------- the index builder alone

Resolutions == 1 .. 8
Strides == 2 .. MaxSide

InitIndices ==
    /\ Constructed(10, 3, [ x |-> 0, y |-> 0, z |-> 0 ])
    /\ \E R \in Resolutions, side \in Strides :
          probe = [ resolution |-> R, stride |-> side, done |-> FALSE, out |-> << >> ]
    /\ call = NoCall
    /\ NoGuiCall

BuildIndices ==
    /\ ~probe.done
    /\ probe' = [ probe EXCEPT !.done = TRUE,
                               !.out = indices_with_stride(probe.resolution, probe.stride) ]
    /\ UNCHANGED << center, patches, index_buffer, coarse_index_buffer,
                    very_coarse_index_buffer, element_buffers, lod, patch_size,
                    patches_per_side, op, position, prev_center, repeated,
                    constructed, evicted, call, gui, events, trace >>

NextIndices == BuildIndices

SpecIndices == InitIndices /\ [][NextIndices]_vars

\* ------------------------------------------- update, statement by statement

\* the largest jump of the viewpoint, in patches along x
MaxJump == 4

StepCellsX == { -1, 0, MaxJump - 1 }
StepCellsZ == { -1, 1 }
StepWindows == { 1, 3 }
StepPositions ==
    { [ x |-> 10 * a + 3, y |-> 2, z |-> 10 * b + 6 ] : a \in StepCellsX, b \in StepCellsZ }

\* a + b and a - b leave the i32 range
AddOverflows(a, b) ==
    \/ b > 0 /\ a > I32_MAX - b
    \/ b < 0 /\ a < I32_MIN - b
SubOverflows(a, b) ==
    \/ b < 0 /\ a > I32_MAX + b
    \/ b > 0 /\ a < I32_MIN + b

\* the four while loops in the order of the code, and what follows a loop
Loops == { "x_inc", "x_dec", "y_inc", "y_dec" }
NextLoop(loop) ==
    CASE loop = "x_inc" -> "x_dec"
      [] loop = "x_dec" -> "y_inc"
      [] loop = "y_inc" -> "y_dec"
      [] loop = "y_dec" -> "retain"

\* the conditions of the while loops
LoopTest(loop, c, x0, y0) ==
    CASE loop = "x_inc" -> x0 > c[1]
      [] loop = "x_dec" -> x0 < c[1]
      [] loop = "y_inc" -> y0 > c[2]
      [] loop = "y_dec" -> y0 < c[2]

\* the second loop adding 1 to center.0 as the first one does
LoopMove_x_dec_adds(loop, c) ==
    CASE loop = "x_inc" -> << c[1] + 1, c[2] >>
      [] loop = "x_dec" -> << c[1] + 1, c[2] >>
      [] loop = "y_inc" -> << c[1], c[2] + 1 >>
      [] loop = "y_dec" -> << c[1], c[2] - 1 >>

\* self.center.0 += 1, self.center.0 -= 1, self.center.1 += 1, self.center.1 -= 1
LoopMove(loop, c) ==
    CASE loop = "x_inc" -> << c[1] + 1, c[2] >>
      [] loop = "x_dec" -> << c[1] - 1, c[2] >>
      [] loop = "y_inc" -> << c[1], c[2] + 1 >>
      [] loop = "y_dec" -> << c[1], c[2] - 1 >>

\* the range of a for loop without the + 1 of its end
ForRange_short(loop, c, Hn) ==
    IF loop \in { "x_inc", "x_dec" }
    THEN << c[2] - Hn, c[2] + Hn >>
    ELSE << c[1] - Hn, c[1] + Hn >>

\* the range lo .. hi (hi excluded) of the for loop in a while loop
ForRange(loop, c, Hn) ==
    IF loop \in { "x_inc", "x_dec" }
    THEN << c[2] - Hn, c[2] + Hn + 1 >>
    ELSE << c[1] - Hn, c[1] + Hn + 1 >>

\* computing the bounds of that range overflows
ForRangeOverflows(loop, c, Hn) ==
    LET v == IF loop \in { "x_inc", "x_dec" } THEN c[2] ELSE c[1]
    IN  \/ SubOverflows(v, Hn)
        \/ AddOverflows(v, Hn)
        \/ AddOverflows(v + Hn, 1)

\* the first loop pushing its column at center.0 + H - 1
PushedIndex_inner_column(loop, c, i, Hn) ==
    CASE loop = "x_inc" -> << c[1] + Hn - 1, i >>
      [] loop = "x_dec" -> << c[1] - Hn, i >>
      [] loop = "y_inc" -> << i, c[2] + Hn >>
      [] loop = "y_dec" -> << i, c[2] - Hn >>

\* the index handed to TerrainPatch::new in the for loop of each while loop
PushedIndex(loop, c, i, Hn) ==
    CASE loop = "x_inc" -> << c[1] + Hn, i >>
      [] loop = "x_dec" -> << c[1] - Hn, i >>
      [] loop = "y_inc" -> << i, c[2] + Hn >>
      [] loop = "y_dec" -> << i, c[2] - Hn >>

\* computing that index overflows
PushedIndexOverflows(loop, c, Hn) ==
    CASE loop = "x_inc" -> AddOverflows(c[1], Hn)
      [] loop = "x_dec" -> SubOverflows(c[1], Hn)
      [] loop = "y_inc" -> AddOverflows(c[2], Hn)
      [] loop = "y_dec" -> SubOverflows(c[2], Hn)

\* (x0 - ix).abs() or, when the first comparison holds, (y0 - iy).abs()
\* overflows for a patch of ps
RetainOverflows(ps, x0, y0, Hn) ==
    \E p \in BagToSet(ps) :
        \/ SubOverflows(x0, p.index[1])
        \/ x0 - p.index[1] = I32_MIN
        \/ /\ abs(x0 - p.index[1]) <= Hn
           /\ \/ SubOverflows(y0, p.index[2])
              \/ y0 - p.index[2] = I32_MIN

\* update is entered: (x0, y0) and half_patches_per_side are computed
Begin(p) ==
    /\ call.pc = "idle"
    /\ \E target \in { pos2patch(patch_size, p) } :
          call' = [ pc |-> "x_inc", x0 |-> target[1], y0 |-> target[2],
                    loop |-> "none", i |-> 0, hi |-> 0 ]
    /\ op' = "update"
    /\ position' = p
    /\ prev_center' = center
    /\ repeated' = (op = "update" /\ position = p)
    /\ constructed' = 0
    /\ evicted' = 0
    /\ UNCHANGED << center, patches, index_buffer, coarse_index_buffer,
                    very_coarse_index_buffer, element_buffers, lod, patch_size,
                    patches_per_side, probe,
                    gui, events, trace >>

\* the test of a while loop and, when it holds, the statement that moves the
\* center and the bounds of the for loop
While ==
    /\ call.pc \in Loops
    /\ LET loop == call.pc
           Hn == half_patches_per_side(patches_per_side)
       IN  IF LoopTest(loop, center, call.x0, call.y0)
           THEN \E c \in { LoopMove(loop, center) } :
                   /\ center' = c
                   /\ IF ForRangeOverflows(loop, c, Hn)
                      THEN call' = [ call EXCEPT !.pc = "overflow", !.loop = loop ]
                      ELSE \E r \in { ForRange(loop, c, Hn) } :
                              call' = [ call EXCEPT
                                          !.pc = IF r[1] < r[2] THEN "push" ELSE loop,
                                          !.loop = IF r[1] < r[2] THEN loop ELSE "none",
                                          !.i = IF r[1] < r[2] THEN r[1] ELSE 0,
                                          !.hi = IF r[1] < r[2] THEN r[2] ELSE 0 ]
           ELSE /\ center' = center
                /\ call' = [ call EXCEPT !.pc = NextLoop(loop) ]
    /\ UNCHANGED << patches, index_buffer, coarse_index_buffer,
                    very_coarse_index_buffer, element_buffers, lod, patch_size,
                    patches_per_side, op, position, prev_center, repeated,
                    constructed, evicted, probe,
                    gui, events, trace >>

\* one iteration of a for loop: self.patches.push(.. TerrainPatch::new(..) ..)
Push ==
    /\ call.pc = "push"
    /\ LET Hn == half_patches_per_side(patches_per_side)
       IN  IF PushedIndexOverflows(call.loop, center, Hn)
           THEN /\ call' = [ call EXCEPT !.pc = "overflow" ]
                /\ UNCHANGED << patches, constructed >>
           ELSE \E at \in { PushedIndex(call.loop, center, call.i, Hn) } :
                   /\ patches' = VecPush(patches,
                                         TerrainPatch_new(at[1], at[2], index_buffer))
                   /\ constructed' = constructed + 1
                   /\ call' = IF call.i + 1 < call.hi
                              THEN [ call EXCEPT !.i = @ + 1 ]
                              ELSE [ call EXCEPT !.pc = call.loop, !.loop = "none",
                                                 !.i = 0, !.hi = 0 ]
    /\ UNCHANGED << center, index_buffer, coarse_index_buffer,
                    very_coarse_index_buffer, element_buffers, lod, patch_size,
                    patches_per_side, op, position, prev_center, repeated,
                    evicted, probe,
                    gui, events, trace >>

\* self.patches.retain(..)
Retain ==
    /\ call.pc = "retain"
    /\ LET Hn == half_patches_per_side(patches_per_side)
       IN  IF RetainOverflows(patches, call.x0, call.y0, Hn)
           THEN /\ call' = [ call EXCEPT !.pc = "overflow" ]
                /\ UNCHANGED << patches, evicted >>
           ELSE \E t \in { retain(Self, call.x0, call.y0, Hn) } :
                   /\ patches' = t.patches
                   /\ evicted' = t.dropped
                   /\ call' = [ call EXCEPT !.pc = "reassign" ]
    /\ UNCHANGED << center, index_buffer, coarse_index_buffer,
                    very_coarse_index_buffer, element_buffers, lod, patch_size,
                    patches_per_side, op, position, prev_center, repeated,
                    constructed, probe,
                    gui, events, trace >>

\* self.patches.iter_mut().for_each(..), and update returns
Reassign ==
    /\ call.pc = "reassign"
    /\ \E t \in { reassign(Self, position) } : patches' = t.patches
    /\ call' = NoCall
    /\ UNCHANGED << center, index_buffer, coarse_index_buffer,
                    very_coarse_index_buffer, element_buffers, lod, patch_size,
                    patches_per_side, op, position, prev_center, repeated,
                    constructed, evicted, probe,
                    gui, events, trace >>

\* set_lod, called while no update is in progress
SetLodIdle(f) ==
    /\ call.pc = "idle"
    /\ SetLod(f)

InitSteps ==
    /\ \E pps \in StepWindows, p \in StepPositions : Constructed(10, pps, p)
    /\ probe = NoProbe
    /\ call = NoCall
    /\ NoGuiCall

NextSteps ==
    \/ \E p \in StepPositions : Begin(p)
    \/ While
    \/ Push
    \/ Retain
    \/ Reassign
    \/ \E f \in UserLods : SetLodIdle(f)

SpecSteps == InitSteps /\ [][NextSteps]_vars

\* the statements of a call that has been entered are executed
Run == While \/ Push \/ Retain \/ Reassign

SpecStepsFair == InitSteps /\ [][NextSteps]_vars /\ WF_vars(Run)

\* ------------------------------------------ update at the end of the grid

\* the f32 next to i32::MIN: neighbouring f32 values between 2^30 and 2^31
\* are 128 apart
NextToMin == I32_MIN + 128

\* viewpoints with patch_size 1: x is i32::MIN as an f32, or the f32 next to
\* it, whose grid coordinate is i32::MIN + 128
EdgePositions ==
    { [ x |-> a, y |-> 0, z |-> b ] : a \in { I32_MIN, NextToMin }, b \in { 0, 1 } }

InitOverflow ==
    /\ \E pps \in StepWindows :
          Constructed(1, pps, [ x |-> NextToMin, y |-> 0, z |-> 0 ])
    /\ probe = NoProbe
    /\ call = NoCall
    /\ NoGuiCall

NextOverflow ==
    \/ \E p \in EdgePositions : Begin(p)
    \/ While
    \/ Push
    \/ Retain
    \/ Reassign

SpecOverflow == InitOverflow /\ [][NextOverflow]_vars

\* --------------------------------------------------------- the GUI calls

\* the variables of the Terrain, which no call on the GUI touches
terrain ==
    << center, patches, index_buffer, coarse_index_buffer,
       very_coarse_index_buffer, element_buffers, lod, patch_size,
       patches_per_side, op, position, prev_center, repeated, constructed,
       evicted, probe, call >>

\* the input events of the model: one event of each variant the GUI names,
\* with either value of its handled flag
Flagged ==
    { [ kind |-> "KeyPress", key |-> "A", modifiers |-> NoModifiers, handled |-> h ] :
        h \in BOOLEAN }
    \cup { [ kind |-> "KeyRelease", key |-> "A", modifiers |-> NoModifiers,
             handled |-> h ] : h \in BOOLEAN }
    \cup { [ kind |-> "MousePress", button |-> "Left", position |-> << 4, 6 >>,
             modifiers |-> NoModifiers, handled |-> h ] : h \in BOOLEAN }
    \cup { [ kind |-> "MouseRelease", button |-> "Right", position |-> << 4, 6 >>,
             modifiers |-> NoModifiers, handled |-> h ] : h \in BOOLEAN }
    \cup { [ kind |-> "MouseMotion", position |-> << 2, 8 >>, handled |-> h ] :
             h \in BOOLEAN }
    \cup { [ kind |-> "MouseWheel", delta |-> << 2, -4 >>, modifiers |-> NoModifiers,
             handled |-> h ] : h \in BOOLEAN }
    \cup { [ kind |-> "MouseWheel", delta |-> << 2, -4 >>, modifiers |-> CtrlModifiers,
             handled |-> FALSE ] }
Unflagged ==
    { [ kind |-> "Text", text |-> "a" ],
      [ kind |-> "MouseLeave" ],
      [ kind |-> "ModifiersChange", modifiers |-> CtrlModifiers ] }
EventPool == Flagged \cup Unflagged

\* the event slices of at most MaxEvents events
Slices == UNION { [ 1 .. n -> EventPool ] : n \in 0 .. MaxEvents }

\* the additional egui events a caller passes
Additionals == { << >>, << [ kind |-> "Copy" ] >> }

Viewports == { [ x |-> 0, y |-> 0, width |-> 8, height |-> 10 ] }
PixelRatios == { 1, 2 }
Times == { 16 }

\* a call of GUI::update on the caller's slice
GuiUpdate(additional, time, viewport, ratio, wants_pointer, wants_keyboard) ==
    /\ gui.frame < MaxFrames
    /\ \E r \in { GUI_update(gui, events, additional, time, viewport, ratio,
                               wants_pointer, wants_keyboard) } :
          /\ gui' = r.self
          /\ events' = r.events
          /\ trace' = [ op |-> "update", panic |-> << >>, painted |-> << >>,
                        entry |-> events, additional |-> additional,
                        changed |-> r.changed, updates |-> trace.updates + 1,
                        followed |-> 0 ]
    /\ UNCHANGED terrain

\* a call of GUI::render
GuiRender ==
    /\ \E r \in { GUI_render(gui) } :
          /\ gui' = r.self
          /\ trace' = [ op |-> "render", panic |-> r.panic, painted |-> r.painted,
                        entry |-> << >>, additional |-> << >>, changed |-> FALSE,
                        updates |-> 0, followed |-> trace.updates ]
    /\ UNCHANGED << events, terrain >>

\* the caller receives the events of the next frame
Poll(slice) ==
    /\ gui.frame < MaxFrames
    /\ trace.op # "poll"
    /\ events' = slice
    /\ trace' = [ op |-> "poll", panic |-> << >>, painted |-> << >>,
                  entry |-> << >>, additional |-> << >>, changed |-> FALSE,
                  updates |-> trace.updates, followed |-> 0 ]
    /\ UNCHANGED << gui, terrain >>

\* the first update of a GUI
FirstUpdate(additional, time, viewport, ratio, wants_pointer, wants_keyboard) ==
    /\ gui.frame = 0
    /\ GuiUpdate(additional, time, viewport, ratio, wants_pointer, wants_keyboard)

\* the slices of the frames of the protocol
FrameSlices ==
    { << >>,
      << [ kind |-> "MousePress", button |-> "Left", position |-> << 4, 6 >>,
           modifiers |-> NoModifiers, handled |-> FALSE ],
         [ kind |-> "Text", text |-> "a" ] >>,
      << [ kind |-> "KeyPress", key |-> "A", modifiers |-> NoModifiers,
           handled |-> TRUE ],
         [ kind |-> "ModifiersChange", modifiers |-> CtrlModifiers ] >> }

InitGui ==
    /\ Constructed(10, 3, [ x |-> 0, y |-> 0, z |-> 0 ])
    /\ probe = NoProbe
    /\ call = NoCall
    /\ NoGuiCall

NextGui ==
    \/ \E slice \in FrameSlices : Poll(slice)
    \/ \E a \in Additionals, t \in Times, v \in Viewports, d \in PixelRatios,
          wp \in BOOLEAN, wk \in BOOLEAN : GuiUpdate(a, t, v, d, wp, wk)
    \/ GuiRender

SpecGui == InitGui /\ [][NextGui]_vars

\* every slice, handed to the first update of a GUI
InitEvents ==
    /\ Constructed(10, 3, [ x |-> 0, y |-> 0, z |-> 0 ])
    /\ probe = NoProbe
    /\ call = NoCall
    /\ gui = from_gl_context
    /\ events \in Slices
    /\ trace = NoTrace

NextEvents ==
    \/ \E a \in Additionals, t \in Times, v \in Viewports, d \in PixelRatios,
          wp \in BOOLEAN, wk \in BOOLEAN : FirstUpdate(a, t, v, d, wp, wk)
    \/ GuiRender

SpecEvents == InitEvents /\ [][NextEvents]_vars

\* ------------------------------------------------------------ the window

\* the window radius of the Terrain
H == half_patches_per_side(patches_per_side)

Max(a, b) == IF a >= b THEN a ELSE b

\* the Chebyshev distance of two grid coordinates
Cheb(a, b) == Max(abs(a[1] - b[1]), abs(a[2] - b[2]))

\* the coordinates of the window around c
Window(c) == { << ix, iy >> : ix \in c[1] - H .. c[1] + H, iy \in c[2] - H .. c[2] + H }

\* the coordinates that hold a patch in the collection ps
LiveCoords(ps) == { p.index : p \in BagToSet(ps) }

\* the grid steps of the last update along x and along y
StepsX == abs(center[1] - prev_center[1])
StepsY == abs(center[2] - prev_center[2])

\* C1: after new and after every update, a patch is live at (ix, iy) iff
\* max(|ix - center.0|, |iy - center.1|) <= H: every coordinate of the
\* window holds a patch and every live patch lies in the window.
C1_Windowing ==
    /\ \A c \in Window(center) : c \in LiveCoords(patches)
    /\ \A p \in BagToSet(patches) : Cheb(p.index, center) <= H

\* a diagonal update that jumped several patches along x, with a 3 x 3 window
C1_Witness ==
    /\ op = "update"
    /\ H = 1
    /\ StepsX >= 2
    /\ StepsY >= 1
    /\ LiveCoords(patches) = Window(center)

\* C2: after new and after every update the collection holds exactly
\* (2H+1)^2 entries.
C2_LiveCount == VecLen(patches) = (2 * H + 1) * (2 * H + 1)

\* an update that moved the center of a 3 x 3 window and left 9 entries
C2_Witness ==
    /\ op = "update"
    /\ H = 1
    /\ center # prev_center
    /\ constructed >= 6
    /\ VecLen(patches) = 9

\* C3: after new(p) and after update(p), center is the floor of
\* (p.x / patch_size, p.z / patch_size): center * patch_size <= p <
\* (center + 1) * patch_size on both axes.
C3_CenterIsFloor ==
    op \in { "new", "update" } =>
        /\ center[1] * patch_size <= position.x
        /\ position.x < (center[1] + 1) * patch_size
        /\ center[2] * patch_size <= position.z
        /\ position.z < (center[2] + 1) * patch_size

\* an update to a viewpoint with x strictly between -patch_size and 0, from
\* another center: grid index -1
C3_Witness ==
    /\ op = "update"
    /\ position.x < 0
    /\ position.x > -patch_size
    /\ center[1] = -1
    /\ prev_center[1] # -1

\* C4: an update with the viewpoint of the update just before it (and so
\* the same lod) constructs no patch, evicts none and leaves the center, the
\* collection with every patch's index buffer, and the buffers unchanged.
C4_Idempotent ==
    [][ (op = "update" /\ op' = "update" /\ position' = position) =>
            /\ constructed' = 0
            /\ evicted' = 0
            /\ center' = center
            /\ patches' = patches
            /\ lod' = lod
            /\ element_buffers' = element_buffers ]_vars

\* a repeated update under a policy that gave the 3 x 3 window more than one
\* buffer, where the first of the two updates had moved the window
C4_Witness ==
    /\ op = "update"
    /\ repeated
    /\ H = 1
    /\ lod # "default"
    /\ Cardinality({ p.index_buffer : p \in BagToSet(patches) }) >= 2

\* C5: an update whose target is one grid step from the center along one
\* axis constructs exactly 2H+1 patches, the new edge row or column, and
\* evicts exactly 2H+1, the opposite edge; every other live patch survives.
C5_SingleStep ==
    [][ (op' = "update"
         /\ abs(center'[1] - center[1]) + abs(center'[2] - center[2]) = 1) =>
            LET Hn == half_patches_per_side(patches_per_side)
                old == LiveCoords(patches)
                now == LiveCoords(patches')
            IN  /\ constructed' = 2 * Hn + 1
                /\ evicted' = 2 * Hn + 1
                /\ Cardinality(now \ old) = 2 * Hn + 1
                /\ Cardinality(old \ now) = 2 * Hn + 1
                /\ \A c \in now \ old :
                      Max(abs(c[1] - center[1]), abs(c[2] - center[2])) = Hn + 1
                /\ \A c \in old \ now :
                      Max(abs(c[1] - center'[1]), abs(c[2] - center'[2])) = Hn + 1
                /\ VecLen(patches') = VecLen(patches) ]_vars

\* an update that moved the center of a 3 x 3 window by one step along x
C5_Witness ==
    /\ op = "update"
    /\ H = 1
    /\ StepsX + StepsY = 1
    /\ StepsX = 1
    /\ constructed = 3
    /\ evicted = 3

\* the resolution the buffer of a level is built with
LevelResolution(level) ==
    CASE level = "Standard" -> 1
      [] level = "Coarse" -> 4
      [] level = "VeryCoarse" -> 8

\* C6: every live patch's index buffer is one of the three buffers the
\* Terrain holds (built with resolutions 1, 4 and 8); patches of the same
\* level hold the same handle; the three buffers created by new are the only
\* ones ever created, and the Terrain's handles never change.
C6_TopologySharing ==
    /\ Len(element_buffers) = 3
    /\ index_buffer = 1
    /\ coarse_index_buffer = 2
    /\ very_coarse_index_buffer = 3
    /\ element_buffers[index_buffer].resolution = 1
    /\ element_buffers[coarse_index_buffer].resolution = 4
    /\ element_buffers[very_coarse_index_buffer].resolution = 8
    /\ \A p \in BagToSet(patches) :
          p.index_buffer \in { index_buffer, coarse_index_buffer,
                               very_coarse_index_buffer }
    /\ \A p, q \in BagToSet(patches) :
          element_buffers[p.index_buffer].resolution
              = element_buffers[q.index_buffer].resolution
          => p.index_buffer = q.index_buffer

\* after an update that constructed patches, all three buffers are in use
C6_Witness ==
    /\ op = "update"
    /\ constructed > 0
    /\ { p.index_buffer : p \in BagToSet(patches) }
          = { index_buffer, coarse_index_buffer, very_coarse_index_buffer }

\* C7: when update(p) has returned, every live patch holds the buffer of
\* the level the installed lod gives for the distance from the patch's
\* centroid to (p.x, 0, p.z).
C7_LodReassigned ==
    op = "update" =>
        \A q \in BagToSet(patches) :
            LET dx == q.index[1] * patch_size + patch_size \div 2 - position.x
                dz == q.index[2] * patch_size + patch_size \div 2 - position.z
                level == ApplyLod(lod, dx * dx + dz * dz)
            IN  element_buffers[q.index_buffer].resolution = LevelResolution(level)

\* under the non-monotonic policy, an update left a patch it constructed
\* (outside the previous window) and a survivor with non-Standard buffers
C7_Witness ==
    /\ op = "update"
    /\ lod = "nonmonotonic"
    /\ H = 1
    /\ \E q \in BagToSet(patches) :
          /\ Cheb(q.index, prev_center) > H
          /\ q.index_buffer = coarse_index_buffer
    /\ \E q \in BagToSet(patches) :
          /\ Cheb(q.index, prev_center) <= H
          /\ q.index_buffer = very_coarse_index_buffer

\* C8: while set_lod has not been called (lod is the closure new installed),
\* every live patch holds the Standard buffer, whatever its distance.
C8_DefaultStandard ==
    lod = "default" =>
        \A p \in BagToSet(patches) :
            /\ p.index_buffer = index_buffer
            /\ element_buffers[p.index_buffer].resolution = 1

\* with the default closure, an update constructed patches and left one
\* further than 14 from the viewpoint
C8_Witness ==
    /\ lod = "default"
    /\ op = "update"
    /\ constructed > 0
    /\ \E q \in BagToSet(patches) :
          Distance2(PatchCenter(q, patch_size),
                    [ x |-> position.x, y |-> 0, z |-> position.z ]) >= 14 * 14

\* C9: new rejects a patches_per_side that is even (0 included): no Terrain
\* with such a patches_per_side exists.
C9_RejectsEvenWindow == patches_per_side % 2 = 1

\* C10: for (stride - 1) divisible by the resolution, indices returns
\* exactly 6 * ((stride - 1) / resolution)^2 entries.
C10_IndexCount ==
    (probe.done /\ (probe.stride - 1) % probe.resolution = 0) =>
        Len(probe.out) = 6 * ((probe.stride - 1) \div probe.resolution)
                           * ((probe.stride - 1) \div probe.resolution)

\* the builder ran for resolution 4 on a side of 17: 4 x 4 cells
C10_Witness ==
    /\ probe.done
    /\ probe.resolution = 4
    /\ probe.stride = 17
    /\ Len(probe.out) = 96


\* --------------------------------------------- the cells of a built topology

\* the number of cells along each axis of the probed call
ProbeMax == (probe.stride - 1) \div probe.resolution

\* the cells (r, c) of the probed call
ProbeCells == { << r, c >> : r \in 0 .. ProbeMax - 1, c \in 0 .. ProbeMax - 1 }

\* the place before the six entries of cell (r, c): cells are emitted row by
\* row, six entries each
CellBase(cell) == 6 * (cell[1] * ProbeMax + cell[2])

\* the vertices of the first and of the second triangle emitted for a cell
Triangle1(cell) == { probe.out[CellBase(cell) + j] : j \in 1 .. 3 }
Triangle2(cell) == { probe.out[CellBase(cell) + j] : j \in 4 .. 6 }

\* the vertex index of the corner of a cell at offsets
\* (r * R + dr * R, c * R + dc * R), dr and dc in {0, 1}
Corner(cell, dr, dc) ==
    (cell[1] * probe.resolution + dr * probe.resolution)
        + (cell[2] * probe.resolution + dc * probe.resolution) * probe.stride

\* the probed call returned six entries for each of its cells
ProbeBuilt == probe.done /\ Len(probe.out) = 6 * ProbeMax * ProbeMax

\* C11 as stated: the near corner (r*R, c*R) and the far corner
\* (r*R + R, c*R + R) of every cell appear in both of its triangles.
C11_NearFarDiagonalShared ==
    probe.done =>
        /\ ProbeBuilt
        /\ \A cell \in ProbeCells :
              /\ Corner(cell, 0, 0) \in Triangle1(cell) \cap Triangle2(cell)
              /\ Corner(cell, 1, 1) \in Triangle1(cell) \cap Triangle2(cell)

\* C11 amended: the two triangles of every cell share the other diagonal,
\* from corner (r*R + R, c*R) to corner (r*R, c*R + R); the near corner is in
\* the first triangle only and the far corner in the second only.
C11_OtherDiagonalShared ==
    probe.done =>
        /\ ProbeBuilt
        /\ \A cell \in ProbeCells :
              /\ Triangle1(cell) \cap Triangle2(cell)
                    = { Corner(cell, 1, 0), Corner(cell, 0, 1) }
              /\ Corner(cell, 0, 0) \in Triangle1(cell) \ Triangle2(cell)
              /\ Corner(cell, 1, 1) \in Triangle2(cell) \ Triangle1(cell)

\* the builder ran for resolution 4 on a side of 9: 2 x 2 cells, 24 entries
C11_Witness ==
    /\ probe.done
    /\ probe.resolution = 4
    /\ probe.stride = 9
    /\ Len(probe.out) = 24
    /\ Triangle1(<< 1, 1 >>) \cap Triangle2(<< 1, 1 >>) = { 8 + 4 * 9, 4 + 8 * 9 }


\* C17 as stated: indices does not return a sequence for a resolution that
\* does not divide stride - 1: no call with such a resolution completes.
C17_RejectsIndivisible ==
    probe.done => (probe.stride - 1) % probe.resolution = 0

\* the four corners of a cell
Corners(cell) == { Corner(cell, dr, dc) : dr \in { 0, 1 }, dc \in { 0, 1 } }

\* C20: for a resolution that divides stride - 1 (1, 4 and 8 among them),
\* every index emitted for a cell is one of the cell's four corners, each of
\* its two triangles has three distinct corners, the four corners are all
\* used, and every index lies in 0 .. stride^2 - 1.
C20_IndexValidity ==
    (probe.done /\ (probe.stride - 1) % probe.resolution = 0) =>
        /\ ProbeBuilt
        /\ \A cell \in ProbeCells :
              /\ Triangle1(cell) \subseteq Corners(cell)
              /\ Triangle2(cell) \subseteq Corners(cell)
              /\ Cardinality(Triangle1(cell)) = 3
              /\ Cardinality(Triangle2(cell)) = 3
              /\ Triangle1(cell) \cup Triangle2(cell) = Corners(cell)
              /\ Cardinality(Corners(cell)) = 4
        /\ \A j \in DOMAIN probe.out :
              probe.out[j] \in 0 .. probe.stride * probe.stride - 1

\* the builder ran for resolution 8 on a side of 17: its last cell reaches
\* the last vertex, 17 * 17 - 1
C20_Witness ==
    /\ probe.done
    /\ probe.resolution = 8
    /\ probe.stride = 17
    /\ Len(probe.out) = 24
    /\ probe.out[24] = 17 * 17 - 1


\* ------------------------------------------------------------- set_lod

\* every live patch holds the buffer of the level the installed lod gives for
\* its distance to the last viewpoint
LodAgrees ==
    \A q \in BagToSet(patches) :
        LET d2 == Distance2(PatchCenter(q, patch_size),
                            [ x |-> position.x, y |-> 0, z |-> position.z ])
        IN  q.index_buffer = LodBuffer(Self, ApplyLod(lod, d2))

\* C19: set_lod replaces only the stored policy: center, the collection with
\* every patch's index buffer, the three buffers and their handles, patch_size
\* and patches_per_side are as before the call; the update that follows a
\* set_lod leaves every live patch with the buffer of its level under the new
\* policy.
C19_SetLodFrame ==
    [][ /\ op' = "set_lod" =>
              /\ center' = center
              /\ patches' = patches
              /\ element_buffers' = element_buffers
              /\ index_buffer' = index_buffer
              /\ coarse_index_buffer' = coarse_index_buffer
              /\ very_coarse_index_buffer' = very_coarse_index_buffer
              /\ patch_size' = patch_size
              /\ patches_per_side' = patches_per_side
        /\ (op = "set_lod" /\ op' = "update") => LodAgrees' ]_vars

\* after a set_lod that followed an update, with patches that had been given
\* a non-Standard buffer: a live patch holds a buffer the new policy does not
\* give it
C19_Witness ==
    /\ op = "set_lod"
    /\ H = 1
    /\ \E q \in BagToSet(patches) : q.index_buffer # index_buffer
    /\ ~LodAgrees


\* ------------------------------------------------- history independence

\* what an observer sees of a Terrain t: its center and, for every live
\* coordinate, the resolution of the buffer the patch there holds
Observable(t) ==
    [ center |-> t.center,
      levels |-> { << p.index, t.element_buffers[p.index_buffer].resolution >> :
                      p \in BagToSet(t.patches) } ]

\* C16: after update(p), whatever calls came before, the center, the live
\* coordinates and the level of the patch at each coordinate are those of
\* new(.., p) followed by set_lod of the installed policy and update(p).
C16_HistoryIndependent ==
    op = "update" =>
        \A fresh \in { update(set_lod(new(patch_size, patches_per_side, position),
                                       lod), position) } :
            Observable(Self) = Observable(fresh)

\* an update under a user policy that jumped along x and moved along y, so
\* that it constructed patches it discarded, and left more than one level
C16_Witness ==
    /\ op = "update"
    /\ H = 1
    /\ lod \in UserLods
    /\ StepsX >= 2
    /\ StepsY >= 1
    /\ constructed > Cardinality(LiveCoords(patches) \ { c \in LiveCoords(patches) :
                                                            Cheb(c, prev_center) <= H })
    /\ Cardinality({ p.index_buffer : p \in BagToSet(patches) }) >= 2


\* ------------------------------------------------------------ survivors

\* the number of entries of the collection ps at the coordinate c
CopiesAt(ps, c) ==
    BagCardinality([ p \in { q \in BagToSet(ps) : q.index = c } |-> ps[p] ])

\* C14: a patch live before update(p) at a coordinate of the window around
\* the new center is live after it, once, and was not constructed by the
\* call: the TerrainPatch::new calls of the update are those at coordinates
\* that held no patch before (new in the window, or discarded by the same
\* call's retain); an update that leaves the center where it was (a change
\* of LOD at most) constructs and evicts nothing.
C14_SurvivorsKept ==
    [][ op' = "update" =>
            LET Hn == half_patches_per_side(patches_per_side)
                old == LiveCoords(patches)
                now == LiveCoords(patches')
                survivors == { c \in old :
                                 Max(abs(c[1] - center'[1]), abs(c[2] - center'[2])) <= Hn }
            IN  /\ survivors \subseteq now
                /\ \A c \in survivors : CopiesAt(patches', c) = 1
                /\ constructed' - Cardinality(now \ old)
                      = evicted' - Cardinality(old \ now)
                /\ constructed' >= Cardinality(now \ old)
                /\ center' = center =>
                      /\ constructed' = 0
                      /\ evicted' = 0
                      /\ now = old ]_vars

\* an update under a user policy that moved the center by one step on each
\* axis: four patches survived, one of them with a buffer that is not the
\* Standard one, and patches were constructed
C14_Witness ==
    /\ op = "update"
    /\ H = 1
    /\ lod \in UserLods
    /\ StepsX = 1
    /\ StepsY = 1
    /\ constructed = 6
    /\ Cardinality({ c \in LiveCoords(patches) : Cheb(c, prev_center) <= H }) = 4
    /\ \E q \in BagToSet(patches) :
          /\ Cheb(q.index, prev_center) <= H
          /\ q.index_buffer # index_buffer


\* ------------------------------------------------- the steps of an update

\* the target (x0, y0) of the update in progress
Target == << call.x0, call.y0 >>

\* the distance of two grid coordinates counted in re-centering steps
Manhattan(a, b) == abs(a[1] - b[1]) + abs(a[2] - b[2])

\* the update in progress is at the test of a while loop or past the loops
BetweenSteps == call.pc \in Loops \cup { "retain", "reassign" }

\* C12: an update to a target dx, dy away makes |dx| + |dy| re-centering
\* steps, the x steps before the y steps; each step changes one component of
\* the center by 1 and constructs 2H+1 patches, so that the update
\* constructs (|dx| + |dy|) * (2H+1) patches, those its retain discards
\* included.
C12_MultiStep ==
    /\ [](BetweenSteps =>
            /\ constructed = Manhattan(center, prev_center) * (2 * H + 1)
            /\ call.pc \in { "y_inc", "y_dec", "retain", "reassign" } =>
                  center[1] = call.x0
            /\ call.pc \in { "retain", "reassign" } =>
                  /\ center = Target
                  /\ constructed = Manhattan(Target, prev_center) * (2 * H + 1))
    /\ [](call.pc = "push" =>
            constructed = (Manhattan(center, prev_center) - 1) * (2 * H + 1)
                            + (call.i - (call.hi - (2 * H + 1))))
    /\ []((call.pc = "idle" /\ op = "update") =>
            constructed = Manhattan(center, prev_center) * (2 * H + 1))
    /\ [][ center' # center =>
              /\ call.pc \in Loops
              /\ Manhattan(center', center) = 1
              /\ Manhattan(center', prev_center) = Manhattan(center, prev_center) + 1
              /\ call.pc \in { "x_inc", "x_dec" } => center'[2] = prev_center[2]
              /\ call.pc \in { "y_inc", "y_dec" } => center'[1] = call.x0
              /\ call'.pc = "push"
              /\ call'.hi - call'.i = 2 * half_patches_per_side(patches_per_side) + 1 ]_vars

\* past the retain of an update that jumped MaxJump patches along x and two
\* along y with a 3 x 3 window: 18 patches constructed, 9 of them discarded
\* with the 9 of the old window
C12_Witness ==
    /\ call.pc = "reassign"
    /\ H = 1
    /\ StepsX = MaxJump
    /\ StepsY = 2
    /\ constructed = (MaxJump + 2) * 3
    /\ evicted = constructed
    /\ evicted > 9

\* C13: at every point of an update (after each push, before and after
\* retain) and between calls, no two entries of the collection have the same
\* grid coordinate.
C13_UniqueCoordinates ==
    /\ VecLen(patches) = Cardinality(LiveCoords(patches))
    /\ \A p \in BagToSet(patches) : CopiesAt(patches, p.index) = 1

\* in the last loop of a diagonal update that jumped along x, after a push:
\* the collection holds the old window and every patch pushed so far
C13_Witness ==
    /\ call.pc = "push"
    /\ call.loop = "y_dec"
    /\ H = 1
    /\ StepsX >= 2
    /\ constructed >= 7
    /\ VecLen(patches) = 9 + constructed

\* C15: every re-centering step brings the center one step closer to the
\* target; past the loops the center is the target; an update that has been
\* entered returns.
C15_Terminates ==
    /\ [][ center' # center =>
              /\ call.pc \in Loops
              /\ Manhattan(center', Target) < Manhattan(center, Target) ]_vars
    /\ [](call.pc \in { "retain", "reassign" } => center = Target)
    /\ (call.pc # "idle") ~> (call.pc = "idle")

\* the loops of an update are left after a jump along x larger than the
\* diameter of the 3 x 3 window
C15_Witness ==
    /\ call.pc = "retain"
    /\ H = 1
    /\ StepsX > 2 * H + 1
    /\ center = Target


\* ------------------------------------------------------------- overflow

\* C18: no update overflows: the computations on grid coordinates of every
\* call stay within the i32 range, whatever the viewpoint.
C18_NoOverflow == call.pc # "overflow"


\* ------------------------------------------------------------------- GUI

\* C21: a render succeeds if and only if an update was called since the GUI
\* was constructed and since the render before it; otherwise it panics with
\* "need to call GUI::update before GUI::render".  A render that succeeds
\* takes the stored output, which is that of the latest update, and leaves
\* none stored.
C21_RenderProtocol ==
    [][ trace'.op = "render" =>
          /\ (trace'.panic = << >>) <=> (trace.updates >= 1)
          /\ trace'.panic # << >> =>
                /\ trace'.panic = << "need to call GUI::update before GUI::render" >>
                /\ trace'.painted = << >>
                /\ gui' = gui
          /\ trace'.panic = << >> =>
                /\ gui.output # << >>
                /\ trace'.painted # << >>
                /\ trace'.painted[1].output = gui.output[1]
                /\ trace'.painted[1].output.frame = gui.frame
          /\ gui'.output = << >> ]_vars

\* a render succeeded after two updates with no render between them and
\* painted the output of the second
C21_Witness ==
    /\ trace.op = "render"
    /\ trace.panic = << >>
    /\ trace.followed = 2
    /\ trace.painted[1].output.frame = 2
    /\ gui.output = << >>

\* an input event is handed to egui: its variant is one try_convert_event
\* converts and it is not marked handled
Forwardable(event) ==
    \/ event.kind \in { "Text", "MouseLeave" }
    \/ /\ event.kind \in { "KeyPress", "KeyRelease", "MousePress", "MouseRelease",
                            "MouseMotion", "MouseWheel" }
       /\ ~event.handled

\* C22: the events GUI::update hands to egui are, in the order of the slice,
\* the converted events of a convertible variant that were not marked handled
\* when update was entered (Text and MouseLeave carry no mark), followed by
\* the additional egui events.
C22_EventForwarding ==
    trace.op = "update" =>
        LET chosen == SelectSeq(trace.entry, Forwardable)
            converted ==
                [ k \in DOMAIN chosen |->
                    try_convert_event(chosen[k], gui.viewport,
                                      gui.pixels_per_point)[1].event ]
        IN  /\ gui.output # << >>
            /\ gui.output[1].input.events = converted \o trace.additional

\* an update found a handled mouse press before a key press that was not
\* handled and got an additional event: the key and the additional event
\* are handed to egui
C22_Witness ==
    /\ trace.op = "update"
    /\ Len(trace.entry) = 2
    /\ trace.entry[1].kind = "MousePress"
    /\ trace.entry[1].handled
    /\ trace.entry[2].kind = "KeyPress"
    /\ ~trace.entry[2].handled
    /\ trace.additional # << >>
    /\ Len(gui.output[1].input.events) = 2
    /\ gui.output[1].input.events[1].kind = "Key"

====
